---- MODULE Spec2Model ----
(***************************************************************************)
(* Model of mic_roster_selenium.py: process_response_cal (the calendar     *)
(* grid parser, shift text interpreter and event builder writing into the  *)
(* global event_dict) and main() (list, delete, acquire and parse three    *)
(* pages, create).                                                         *)
(*                                                                         *)
(* A Python str is modelled as a sequence of one-character strings, so     *)
(* that split, slicing, lower, replace and f-string formatting are         *)
(* computed as the code computes them.                                     *)
(***************************************************************************)
EXTENDS Integers, Sequences, FiniteSets, Bags, TLC

-----------------------------------------------------------------------------
(* Bounds of the model. *)

\* cell ids number 1..39 in the code; the pages drawn here have every cell id
\* above MaxCells missing from the document, for which the loop body does nothing
MaxCells == 3
\* same, for the pages of a full run of main()
MaxRunCells == 1
\* largest number of remote events the list call returns
MaxRemote == 3
\* wall-clock values (minutes) the run can observe: 0..MaxClock
MaxClock == 1

-----------------------------------------------------------------------------
(* Python str operations on sequences of characters. *)

Digits == <<"0", "1", "2", "3", "4", "5", "6", "7", "8", "9">>

UpperChars == <<"A", "B", "C", "D", "E", "F", "G", "H", "I", "J", "K", "L", "M",
                "N", "O", "P", "Q", "R", "S", "T", "U", "V", "W", "X", "Y", "Z">>

LowerChars == <<"a", "b", "c", "d", "e", "f", "g", "h", "i", "j", "k", "l", "m",
                "n", "o", "p", "q", "r", "s", "t", "u", "v", "w", "x", "y", "z">>

Range(s) == {s[i] : i \in DOMAIN s}

\* str.lower() on one character
LowerChar(c) ==
    IF c \in Range(UpperChars)
    THEN LowerChars[CHOOSE i \in DOMAIN UpperChars : UpperChars[i] = c]
    ELSE c

\* str.lower()
Lower(s) == [i \in DOMAIN s |-> LowerChar(s[i])]

\* s[:n]
Take(s, n) == SubSeq(s, 1, IF n < Len(s) THEN n ELSE Len(s))

\* s[n:]
Drop(s, n) == SubSeq(s, n + 1, Len(s))

\* str.split(sep) for a one-character separator: empty fields are kept
RECURSIVE Split(_, _)
Split(s, sep) ==
    IF \A i \in DOMAIN s : s[i] # sep
    THEN <<s>>
    ELSE LET i == CHOOSE j \in DOMAIN s :
                    s[j] = sep /\ \A k \in 1..(j - 1) : s[k] # sep
         IN  <<SubSeq(s, 1, i - 1)>> \o Split(Drop(s, i), sep)

\* str.replace(")", ") ")
RECURSIVE ReplaceParen(_)
ReplaceParen(s) ==
    IF s = <<>> THEN <<>>
    ELSE (IF Head(s) = ")" THEN <<")", " ">> ELSE <<Head(s)>>) \o ReplaceParen(Tail(s))

\* str(n) for n >= 0
RECURSIVE IntToStr(_)
IntToStr(n) ==
    IF n < 10 THEN <<Digits[n + 1]>>
    ELSE IntToStr(n \div 10) \o <<Digits[(n % 10) + 1]>>

-----------------------------------------------------------------------------
(* convert_month_to_num *)

MonthTable ==
    << <<"j","a","n","u","a","r","y">>,
       <<"f","e","b","r","u","a","r","y">>,
       <<"m","a","r","c","h">>,
       <<"a","p","r","i","l">>,
       <<"m","a","y">>,
       <<"j","u","n","e">>,
       <<"j","u","l","y">>,
       <<"a","u","g","u","s","t">>,
       <<"s","e","p","t","e","m","b","e","r">>,
       <<"o","c","t","o","b","e","r">>,
       <<"n","o","v","e","m","b","e","r">>,
       <<"d","e","c","e","m","b","e","r">> >>

Invalid == <<"I","n","v","a","l","i","d">>

convert_month_to_num(month_string) ==
    LET m == Lower(month_string) IN
    IF \E i \in DOMAIN MonthTable : MonthTable[i] = m
    THEN LET i == CHOOSE j \in DOMAIN MonthTable : MonthTable[j] = m
         IN  IF i < 10 THEN <<"0">> \o IntToStr(i) ELSE IntToStr(i)
    ELSE Invalid

-----------------------------------------------------------------------------
(* Inputs: what a rendered page can hold. *)

\* month labels as get_text(strip=True) returns them
March2024 == <<"M","a","r","c","h"," ","2","0","2","4">>
MARCH2024 == <<"M","A","R","C","H"," ","2","0","2","4">>
April2024 == <<"A","p","r","i","l"," ","2","0","2","4">>
Smarch2024 == <<"S","m","a","r","c","h"," ","2","0","2","4">>
MarchNoYear == <<"M","a","r","c","h">>

\* soup.find(...) found no month-label span: month = None
NoLabel == [found |-> FALSE, text |-> <<>>]

Label(t) == [found |-> TRUE, text |-> t]

Labels == {NoLabel, Label(March2024), Label(MARCH2024), Label(Smarch2024), Label(MarchNoYear)}

RunLabels == {NoLabel, Label(March2024), Label(April2024)}

\* cell texts as get_text(strip=True) returns them
TxtOFF == <<"O","F","F">>
TxtPH == <<"P","H">>
TxtOT == <<"O","T">>
TxtNA == <<"N","A">>
TxtSICK == <<"S","I","C","K">>
TxtNotAvailable == <<"N","o","t"," ","a","v","a","i","l","a","b","l","e">>
TxtShift == <<"0","6","0","0","-","1","4","0","0"," ","A","B","C"," ","R","o","l","e","N","a","m","e">>
TxtParen == <<"0","7","0","0","-","1","5","0","0"," ","(","A","B",")","R","o","l","e">>
TxtOvernight == <<"2","2","0","0","-","0","6","0","0"," ","A","B","C"," ","N","i","g","h","t">>
TxtLetters == <<"a","b","-","c","d"," ","A","B","C"," ","R","o","l","e">>
TxtTwoTokens == <<"0","6","0","0","-","1","4","0","0"," ","A","B","C">>
TxtNoDash == <<"0","6","0","0"," ","A","B","C"," ","R","o","l","e">>
TxtOneToken == <<"T","r","a","i","n","i","n","g">>

MarkerTexts == {TxtOFF, TxtPH, TxtOT, TxtNA, TxtSICK, TxtNotAvailable}

CellTexts ==
    MarkerTexts \cup {<<>>, TxtShift, TxtParen, TxtOvernight, TxtLetters,
                      TxtTwoTokens, TxtNoDash, TxtOneToken}

\* soup.find('td', id=cell_id) found nothing
NoCell == [present |-> FALSE, text |-> <<>>]

Cell(t) == [present |-> TRUE, text |-> t]

DocCells == {NoCell} \cup {Cell(t) : t \in CellTexts}

RunCells == {NoCell, Cell(TxtOFF), Cell(TxtShift), Cell(TxtOneToken)}

-----------------------------------------------------------------------------
(* State. *)

VARIABLES
    pc,           \* where the run is: a call in progress, or how it ended
    raised,       \* the call whose exception ended the run uncaught, or "none"
    events_tbd,   \* main: the list call's result, a sequence of remote event ids
    deleteCalls,  \* delete calls issued so far (position of main's delete loop)
    deleteErrors, \* "An error occurred" lines printed by delete_calendar_event
    page,         \* pages acquired so far
    month,        \* process_response_cal: the month label, or NoLabel for None
    cell,         \* process_response_cal: the loop variable
    date,         \* process_response_cal: the populated-cell counter
    cell_text,    \* process_response_cal: text of the last cell found
    event_dict,   \* the global dict, in insertion order: <<[key, event], ...>>
    now,          \* what datetime.datetime.now() returns, in minutes
    createCalls,  \* create calls issued so far (position of main's create loop)
    createErrors, \* "Skipped event" lines printed by main
    soup,         \* the cells of the parsed document, where the page is drawn
                  \* before the call; <<>> where cells are drawn as the loop finds them
    remote        \* the remote calendar, where it is tracked: a bag of the events'
                  \* start dateTimes (one copy per remote event)

vars == <<pc, raised, events_tbd, deleteCalls, deleteErrors, page, month, cell,
          date, cell_text, event_dict, now, createCalls, createErrors, soup, remote>>

remoteVars == <<events_tbd, deleteCalls, deleteErrors, createCalls, createErrors,
                remote>>

-----------------------------------------------------------------------------
(* process_response_cal, one cell at a time. *)

\* the vocabulary with the SICK test left out
MarkersNoSick == {<<"O","F","F">>, <<"P","H">>, <<"O","T">>, <<"N","A">>,
                  <<"N","o","t">>}

\* the first-token vocabulary tested at lines 255-257
Markers == {<<"O","F","F">>, <<"P","H">>, <<"O","T">>, <<"N","A">>,
            <<"S","I","C","K">>, <<"N","o","t">>}

IsMarker(text) == Split(text, " ")[1] \in Markers

\* the day formatted without the zero padding of lines 251-252
DayStrNoPad(n) == IntToStr(n)

\* lines 251-254
DayStr(n) == IF n < 10 THEN <<"0">> \o IntToStr(n) ELSE IntToStr(n)

\* the f-string of lines 267-268, 272-273 and 288-289
DateTimeStr(date_text, d, hhmm) ==
    date_text[2] \o <<"-">> \o convert_month_to_num(date_text[1]) \o <<"-">> \o d
        \o <<"T">> \o Take(hhmm, 2) \o <<":">> \o Drop(hhmm, 2) \o <<":", "0", "0">>

\* the subscripts evaluated inside the try block: any of them out of range raises
\* IndexError, which the bare except catches
BuildRaises(label, text) ==
    \/ Len(Split(text, " ")) < 3
    \/ Len(Split(label, " ")) < 2
    \/ Len(Split(Split(text, " ")[1], "-")) < 2

Reminders ==
    [useDefault |-> FALSE,
     overrides |-> << [method |-> "email", minutes |-> 24 * 60],
                      [method |-> "email", minutes |-> 12 * 60],
                      [method |-> "popup", minutes |-> 12 * 60],
                      [method |-> "popup", minutes |-> 60],
                      [method |-> "popup", minutes |-> 10] >>]

\* the dict literal of lines 262-286
MakeEvent(label, n, text, clock) ==
    LET date_text == Split(label, " ")
        shift_text == Split(text, " ")
        time_text == Split(shift_text[1], "-")
    IN  [summary |-> shift_text[3],
         location |-> "25 Garden Street Eveleigh NSW 2015",
         description |-> <<"Date shift last updated: ", clock>>,
         start |-> [dateTime |-> DateTimeStr(date_text, DayStr(n), time_text[1]),
                    timeZone |-> "Australia/Sydney"],
         end |-> [dateTime |-> DateTimeStr(date_text, DayStr(n), time_text[2]),
                  timeZone |-> "Australia/Sydney"],
         reminders |-> Reminders]

\* a key taken from the end of the shift instead of its start
EventKeyFromEnd(label, n, text) ==
    DateTimeStr(Split(label, " "), DayStr(n),
                Split(Split(text, " ")[1], "-")[2])

\* the key expression of lines 288-289
EventKey(label, n, text) ==
    DateTimeStr(Split(label, " "), DayStr(n),
                Split(Split(text, " ")[1], "-")[1])

Keys(d) == {d[i].key : i \in DOMAIN d}

\* a store that appends every event, as a list would
DictPutAppend(d, key, event) == Append(d, [key |-> key, event |-> event])

\* d[key] = event on a dict that keeps insertion order
DictPut(d, key, event) ==
    IF key \in Keys(d)
    THEN [i \in DOMAIN d |-> IF d[i].key = key THEN [key |-> key, event |-> event]
                                                ELSE d[i]]
    ELSE Append(d, [key |-> key, event |-> event])

\* the loop with date += 1 outside the test of cell_text: empty cells count too
CellStepCountsEmpty(label, n, text, d, clock, c) ==
    LET t == ReplaceParen(c.text) IN
    IF ~c.present
        THEN [kind |-> "absent", cell_text |-> text, date |-> n, event_dict |-> d]
    ELSE IF t = <<>>
        THEN [kind |-> "empty", cell_text |-> t, date |-> n + 1, event_dict |-> d]
    ELSE IF IsMarker(t)
        THEN [kind |-> "marker", cell_text |-> t, date |-> n + 1, event_dict |-> d]
    ELSE IF ~label.found
        \* None.split(" "), line 258, outside the try block
        THEN [kind |-> "raise", cell_text |-> t, date |-> n, event_dict |-> d]
    ELSE IF BuildRaises(label.text, t)
        \* the except clause: input(...) is called before date += 1
        THEN [kind |-> "input", cell_text |-> t, date |-> n, event_dict |-> d]
    ELSE [kind |-> "insert", cell_text |-> t, date |-> n + 1,
          event_dict |-> DictPut(d, EventKey(label.text, n, t),
                                 MakeEvent(label.text, n, t, clock))]

\* One iteration of the loop of lines 242-292 on the document's cell c:
\* what it does (kind) and the values it leaves in cell_text, date, event_dict.
CellStep(label, n, text, d, clock, c) ==
    LET t == ReplaceParen(c.text) IN
    IF ~c.present
        THEN [kind |-> "absent", cell_text |-> text, date |-> n, event_dict |-> d]
    ELSE IF t = <<>>
        THEN [kind |-> "empty", cell_text |-> t, date |-> n, event_dict |-> d]
    ELSE IF IsMarker(t)
        THEN [kind |-> "marker", cell_text |-> t, date |-> n + 1, event_dict |-> d]
    ELSE IF ~label.found
        \* None.split(" "), line 258, outside the try block
        THEN [kind |-> "raise", cell_text |-> t, date |-> n, event_dict |-> d]
    ELSE IF BuildRaises(label.text, t)
        \* the except clause: input(...) is called before date += 1
        THEN [kind |-> "input", cell_text |-> t, date |-> n, event_dict |-> d]
    ELSE [kind |-> "insert", cell_text |-> t, date |-> n + 1,
          event_dict |-> DictPut(d, EventKey(label.text, n, t),
                                 MakeEvent(label.text, n, t, clock))]

\* the loop body on the document's cell c
ProcessCellOn(c) ==
    LET r == CellStep(month, date, cell_text, event_dict, now, c) IN
    /\ cell_text' = r.cell_text
    /\ event_dict' = r.event_dict
    /\ date' = r.date
    /\ pc' = CASE r.kind = "raise" -> "aborted"
               [] r.kind = "input" -> "input"
               [] OTHER -> "parse"
    /\ raised' = IF r.kind = "raise" THEN "parse" ELSE raised
    /\ cell' = IF r.kind \in {"raise", "input"} THEN cell ELSE cell + 1

\* the loop body for the cell id `cell`, on documents whose cell ids above
\* `last` are missing
ProcessCell(Inputs, last) ==
    /\ pc = "parse"
    /\ cell <= last
    /\ \E c \in Inputs : ProcessCellOn(c)
    /\ UNCHANGED <<remoteVars, soup, page, month, now>>

\* the operator presses enter: input() returns, then date += 1 (line 292);
\* the wall clock may have advanced while the run was blocked
Acknowledge ==
    /\ pc = "input"
    /\ pc' = "parse"
    /\ date' = date + 1
    /\ cell' = cell + 1
    /\ now' \in now..MaxClock
    /\ UNCHANGED <<remoteVars, soup, raised, page, month, cell_text, event_dict>>

\* the loop is over: return event_dict (line 293)
ReturnDict(last) ==
    /\ pc = "parse"
    /\ cell > last
    /\ pc' = "returned"
    /\ UNCHANGED <<remoteVars, soup, raised, page, month, cell, date, cell_text,
                   event_dict, now>>

\* one call of process_response_cal on any page, into the empty event_dict
InitParse ==
    /\ pc = "parse"
    /\ raised = "none"
    /\ events_tbd = <<>>
    /\ deleteCalls = 0
    /\ deleteErrors = 0
    /\ page = 1
    /\ month \in Labels
    /\ cell = 1
    /\ date = 1
    /\ cell_text = <<>>
    /\ event_dict = <<>>
    /\ now \in 0..MaxClock
    /\ createCalls = 0
    /\ createErrors = 0
    /\ soup = <<>>
    /\ remote = EmptyBag

NextParse ==
    \/ ProcessCell(DocCells, MaxCells)
    \/ Acknowledge
    \/ ReturnDict(MaxCells)

SpecParse == InitParse /\ [][NextParse]_vars

\* pages drawn before the call, for calls repeated on one page
TwiceLabels == {NoLabel, Label(March2024), Label(MarchNoYear)}

TwiceCells == {NoCell, Cell(<<>>), Cell(TxtOFF), Cell(TxtShift), Cell(TxtOneToken)}

\* the loop body for the cell id `cell` of the document soup
ProcessSoupCell ==
    /\ pc = "parse"
    /\ cell <= Len(soup)
    /\ ProcessCellOn(soup[cell])
    /\ UNCHANGED <<remoteVars, soup, page, month, now>>

\* process_response_cal is called again on the same document, some time later
CallAgain ==
    /\ pc = "returned"
    /\ page = 1
    /\ page' = 2
    /\ pc' = "parse"
    /\ cell' = 1
    /\ date' = 1
    /\ cell_text' = <<>>
    /\ now' \in now..MaxClock
    /\ UNCHANGED <<remoteVars, soup, raised, month, event_dict>>

\* a first call of process_response_cal on a page, into the empty event_dict
InitTwice ==
    /\ pc = "parse"
    /\ raised = "none"
    /\ events_tbd = <<>>
    /\ deleteCalls = 0
    /\ deleteErrors = 0
    /\ page = 1
    /\ month \in TwiceLabels
    /\ cell = 1
    /\ date = 1
    /\ cell_text = <<>>
    /\ event_dict = <<>>
    /\ now = 0
    /\ createCalls = 0
    /\ createErrors = 0
    /\ soup \in [1..MaxCells -> TwiceCells]
    /\ remote = EmptyBag

NextTwice ==
    \/ ProcessSoupCell
    \/ Acknowledge
    \/ ReturnDict(MaxCells)
    \/ CallAgain

SpecTwice == InitTwice /\ [][NextTwice]_vars

\* the cell ids the loop of line 242 visits: range(1, 40)
LastCell == 39

\* the month names as the portal prints them
MonthNames ==
    << <<"J","a","n","u","a","r","y">>,
       <<"F","e","b","r","u","a","r","y">>,
       <<"M","a","r","c","h">>,
       <<"A","p","r","i","l">>,
       <<"M","a","y">>,
       <<"J","u","n","e">>,
       <<"J","u","l","y">>,
       <<"A","u","g","u","s","t">>,
       <<"S","e","p","t","e","m","b","e","r">>,
       <<"O","c","t","o","b","e","r">>,
       <<"N","o","v","e","m","b","e","r">>,
       <<"D","e","c","e","m","b","e","r">> >>

\* pages of every month of 2024 with markers up to one shift cell, after which
\* every cell id is missing
DayLabels == {Label(MonthNames[i] \o <<" ", "2", "0", "2", "4">>) : i \in DOMAIN MonthNames}

DayCells == {Cell(TxtOFF), Cell(TxtShift), Cell(TxtParen), Cell(TxtOvernight)}

ProcessDayCell == ProcessCell(IF event_dict = <<>> THEN DayCells ELSE {NoCell}, LastCell)

\* one call of process_response_cal on such a page, into the empty event_dict
InitDay ==
    /\ pc = "parse"
    /\ raised = "none"
    /\ events_tbd = <<>>
    /\ deleteCalls = 0
    /\ deleteErrors = 0
    /\ page = 1
    /\ month \in DayLabels
    /\ cell = 1
    /\ date = 1
    /\ cell_text = <<>>
    /\ event_dict = <<>>
    /\ now = 0
    /\ createCalls = 0
    /\ createErrors = 0
    /\ soup = <<>>
    /\ remote = EmptyBag

NextDay ==
    \/ ProcessDayCell
    \/ ReturnDict(LastCell)

SpecDay == InitDay /\ [][NextDay]_vars

-----------------------------------------------------------------------------
(* main() *)

\* process_response_cal is called on three pages: the one login returns and
\* the two that fetch_next_page_html returns (lines 499, 502, 504)
NumPages == 3

\* the locals of a process_response_cal call that starts on a page labelled m
EnterPage(m) ==
    /\ month' = m
    /\ cell' = 1
    /\ date' = 1
    /\ cell_text' = <<>>
    /\ page' = page + 1
    /\ pc' = "parse"

\* an exception no handler of main catches ends the run
Abort(call) ==
    /\ pc' = "aborted"
    /\ raised' = call

\* main going from the list call to login without the delete loop
ListEventsSkipDelete ==
    /\ pc = "list"
    /\ \/ \E R \in 0..MaxRemote :
            /\ events_tbd' = [i \in 1..R |-> i]
            /\ pc' = "login"
            /\ UNCHANGED raised
       \/ /\ Abort("list")
          /\ UNCHANGED events_tbd
    /\ UNCHANGED <<soup, remote, deleteCalls, deleteErrors, createCalls, createErrors, page,
                   month, cell, date, cell_text, event_dict, now>>

\* line 491: list_calendar_events returns the remote events, or raises
ListEvents ==
    /\ pc = "list"
    /\ \/ \E R \in 0..MaxRemote :
            /\ events_tbd' = [i \in 1..R |-> i]
            /\ pc' = IF R = 0 THEN "login" ELSE "delete"
            /\ UNCHANGED raised
       \/ /\ Abort("list")
          /\ UNCHANGED events_tbd
    /\ UNCHANGED <<soup, remote, deleteCalls, deleteErrors, createCalls, createErrors, page,
                   month, cell, date, cell_text, event_dict, now>>

\* delete_calendar_event without its try/except: a failing delete ends the run
DeleteEventUncaught ==
    /\ pc = "delete"
    /\ deleteCalls < Len(events_tbd)
    /\ deleteCalls' = deleteCalls + 1
    /\ \/ /\ pc' = IF deleteCalls + 1 = Len(events_tbd) THEN "login" ELSE "delete"
          /\ UNCHANGED raised
       \/ Abort("delete")
    /\ UNCHANGED <<soup, remote, events_tbd, deleteErrors, createCalls, createErrors, page, month,
                   cell, date, cell_text, event_dict, now>>

\* a delete loop that stops after its first iteration
DeleteEventStopsEarly ==
    /\ pc = "delete"
    /\ deleteCalls < Len(events_tbd)
    /\ deleteCalls' = deleteCalls + 1
    /\ \/ UNCHANGED deleteErrors
       \/ deleteErrors' = deleteErrors + 1
    /\ pc' = "login"
    /\ UNCHANGED <<soup, remote, raised, events_tbd, createCalls, createErrors, page, month,
                   cell, date, cell_text, event_dict, now>>

\* lines 493-497: one iteration; delete_calendar_event catches what the
\* remote call raises and prints it
DeleteEvent ==
    /\ pc = "delete"
    /\ deleteCalls < Len(events_tbd)
    /\ deleteCalls' = deleteCalls + 1
    /\ \/ UNCHANGED deleteErrors
       \/ deleteErrors' = deleteErrors + 1
    /\ pc' = IF deleteCalls + 1 = Len(events_tbd) THEN "login" ELSE "delete"
    /\ UNCHANGED <<soup, remote, raised, events_tbd, createCalls, createErrors, page, month,
                   cell, date, cell_text, event_dict, now>>

\* line 499: login returns the first page, or a wait times out; no event is
\* built before it, so the clock is read relative to the moment it returns
Login ==
    /\ pc = "login"
    /\ \/ /\ \E m \in RunLabels : EnterPage(m)
          /\ UNCHANGED raised
       \/ /\ Abort("login")
          /\ UNCHANGED <<page, month, cell, date, cell_text>>
    /\ UNCHANGED <<remoteVars, soup, event_dict, now>>

\* lines 500-504: sleep, then fetch_next_page_html returns the next page, or
\* the button is not found
FetchNextPage ==
    /\ pc = "returned"
    /\ page < NumPages
    /\ now' \in now..MaxClock
    /\ \/ /\ \E m \in RunLabels : EnterPage(m)
          /\ UNCHANGED raised
       \/ /\ Abort("fetch")
          /\ UNCHANGED <<page, month, cell, date, cell_text>>
    /\ UNCHANGED <<remoteVars, soup, event_dict>>

\* lines 505-514: the last page is parsed; quit the driver and start the
\* create loop (the locals of process_response_cal are gone)
Quit ==
    /\ pc = "returned"
    /\ page = NumPages
    /\ pc' = IF event_dict = <<>> THEN "done" ELSE "create"
    /\ month' = NoLabel
    /\ cell' = 1
    /\ date' = 1
    /\ cell_text' = <<>>
    /\ UNCHANGED <<remoteVars, soup, raised, page, event_dict, now>>

\* lines 514-518: one iteration; main catches what create_calendar_event
\* raises and prints the event
CreateEvent ==
    /\ pc = "create"
    /\ createCalls < Len(event_dict)
    /\ createCalls' = createCalls + 1
    /\ \/ UNCHANGED createErrors
       \/ createErrors' = createErrors + 1
    /\ pc' = IF createCalls + 1 = Len(event_dict) THEN "done" ELSE "create"
    /\ UNCHANGED <<soup, remote, raised, events_tbd, deleteCalls, deleteErrors, page, month,
                   cell, date, cell_text, event_dict, now>>

Init ==
    /\ pc = "list"
    /\ raised = "none"
    /\ events_tbd = <<>>
    /\ deleteCalls = 0
    /\ deleteErrors = 0
    /\ page = 0
    /\ month = NoLabel
    /\ cell = 1
    /\ date = 1
    /\ cell_text = <<>>
    /\ event_dict = <<>>
    /\ now = 0
    /\ createCalls = 0
    /\ createErrors = 0
    /\ soup = <<>>
    /\ remote = EmptyBag

Next ==
    \/ ListEvents
    \/ DeleteEvent
    \/ Login
    \/ ProcessCell(RunCells, MaxRunCells)
    \/ Acknowledge
    \/ ReturnDict(MaxRunCells)
    \/ FetchNextPage
    \/ Quit
    \/ CreateEvent

Spec == Init /\ [][Next]_vars

-----------------------------------------------------------------------------
(* The reconciliation in main(): claims C1 to C4, checked under Spec. *)

\* C1: every listed remote event gets its delete call and every entry of
\* event_dict its create call, whichever of those calls fail: once the run is
\* past the delete loop there have been exactly as many delete calls as listed
\* events, a run that ends normally has issued exactly one create call per
\* entry, and no run ends because a delete or a create call failed.
C1_ExactDeleteAndCreateCalls ==
    /\ pc \notin {"list", "delete"} => deleteCalls = Len(events_tbd)
    /\ pc = "done" => createCalls = Len(event_dict)
    /\ pc = "create" => createCalls < Len(event_dict)
    /\ pc = "aborted" => raised \in {"list", "login", "fetch", "parse"} /\ createCalls = 0

\* three listed events and two entries, with a failed delete and a failed create
C1_Witness ==
    /\ pc = "done"
    /\ Len(events_tbd) = 3 /\ deleteCalls = 3 /\ deleteErrors >= 1
    /\ Len(event_dict) = 2 /\ createCalls = 2 /\ createErrors >= 1

\* C2: the remote calls are ordered list, deletes, creates: a delete call is
\* issued only after the list call has returned, and a create call only after
\* the delete call of every listed event.
C2_ListThenDeleteThenCreate ==
    /\ deleteCalls > 0 => pc # "list" /\ raised # "list"
    /\ createCalls > 0 =>
          /\ pc \in {"create", "done"}
          /\ raised = "none"
          /\ deleteCalls = Len(events_tbd)

\* a create call issued in a run whose list call returned events
C2_Witness ==
    /\ createCalls > 0
    /\ Len(events_tbd) >= 2
    /\ deleteCalls = Len(events_tbd)

\* C3: when fetch_next_page_html fails after a page has been aggregated, the
\* run still ends with one create call attempted per entry of event_dict.
C3_NavigationFailureKeepsEvents ==
    (raised = "fetch" /\ pc \in {"done", "aborted"}) => createCalls = Len(event_dict)

\* C4: a failed list call does not end the run.
C4_ListFailureDoesNotAbort ==
    raised = "list" => pc # "aborted"

-----------------------------------------------------------------------------
(* process_response_cal: claims C5 to C10, checked under SpecParse. *)

\* the whitespace-separated tokens of a text
Tokens(text) == SelectSeq(Split(text, " "), LAMBDA tok : tok # <<>>)

IsHHMM(tok) == Len(tok) = 4 /\ \A i \in DOMAIN tok : tok[i] \in Range(Digits)

\* a first token of the form HHMM-HHMM with numeric components
IsTimeRange(tok) ==
    LET parts == Split(tok, "-") IN
    Len(parts) = 2 /\ IsHHMM(parts[1]) /\ IsHHMM(parts[2])

\* the marker vocabulary as the interpreter's contract gives it
IsMarkerText(text) ==
    /\ text # <<>>
    /\ Tokens(text)[1] \in {<<"O","F","F">>, <<"P","H">>, <<"O","T">>, <<"N","A">>,
                            <<"S","I","C","K">>, <<"N","o","t">>}

\* a cell text that is a shift: a numeric time range, a code and a role
IsShiftText(text) ==
    /\ text # <<>>
    /\ ~IsMarkerText(text)
    /\ Len(Tokens(text)) >= 3
    /\ IsTimeRange(Tokens(text)[1])

\* a non-marker cell text that cannot be decomposed into a shift
IsMalformedText(text) == text # <<>> /\ ~IsMarkerText(text) /\ ~IsShiftText(text)

\* a step of the loop body that found a cell with non-empty text: it raises,
\* blocks in input(), or ends with date += 1
HandlesText == pc = "parse" /\ (pc' \in {"aborted", "input"} \/ date' = date + 1)

\* C5: a malformed cell makes process_response_cal block in the operator
\* prompt without raising and without touching event_dict, and after the
\* acknowledgment the loop goes on with the next cell, event_dict unchanged.
C5_MalformedPromptsAndSkips ==
    [][ /\ (HandlesText /\ IsMalformedText(cell_text')) =>
              (pc' = "input" /\ event_dict' = event_dict)
        /\ pc = "input" =>
              (pc' = "parse" /\ cell' = cell + 1 /\ event_dict' = event_dict) ]_vars

\* C6: process_response_cal never raises to its caller, whatever the month
\* label and the cell texts of the page.
C6_BuildFailureConfined == raised # "parse"

\* C7: no entry of event_dict has "Invalid" in the month position of its key
\* or of its start or end dateTime.
C7_NoInvalidMonthInserted ==
    \A i \in DOMAIN event_dict :
        /\ Split(event_dict[i].key, "-")[2] # Invalid
        /\ Split(event_dict[i].event.start.dateTime, "-")[2] # Invalid
        /\ Split(event_dict[i].event.end.dateTime, "-")[2] # Invalid

\* C8: event_dict changes only on a cell whose first token is a numeric
\* HHMM-HHMM range and that has a third token; any other non-marker cell
\* leaves it as it was.
C8_OnlyNumericRangesInserted ==
    [][ event_dict' # event_dict => IsShiftText(cell_text') ]_vars

\* characters in code-point order
CodePoints == <<" ", "(", ")", "-">> \o Digits \o <<":">> \o UpperChars \o LowerChars

Rank(c) == CHOOSE i \in DOMAIN CodePoints : CodePoints[i] = c

\* a < b for two strings, as Python compares them
RECURSIVE StrLess(_, _)
StrLess(a, b) ==
    IF b = <<>> THEN FALSE
    ELSE IF a = <<>> THEN TRUE
    ELSE IF Head(a) = Head(b) THEN StrLess(Tail(a), Tail(b))
    ELSE Rank(Head(a)) < Rank(Head(b))

\* C9: every event of event_dict starts before it ends.
C9_StartBeforeEnd ==
    \A i \in DOMAIN event_dict :
        StrLess(event_dict[i].event.start.dateTime, event_dict[i].event.end.dateTime)

\* C10: a cell whose first token is OFF, PH, OT, NA, SICK or Not inserts no
\* event, raises no operator prompt and no exception.
C10_MarkersAreNonShift ==
    [][ (HandlesText /\ IsMarkerText(cell_text')) =>
            (event_dict' = event_dict /\ pc' = "parse" /\ raised' = raised) ]_vars

\* cell 1 a shift, cell 2 "Not available": the marker advanced the day counter
\* and left the one event of event_dict alone
C10_Witness ==
    /\ pc = "parse"
    /\ cell_text = TxtNotAvailable
    /\ cell = 3
    /\ date = 3
    /\ Len(event_dict) = 1

-----------------------------------------------------------------------------
(* The day counter: claim C11, checked under SpecTwice. *)

\* the cells with non-empty text among the first k cell ids of a document
Populated(doc, k) ==
    Cardinality({i \in 1..k : doc[i].present /\ doc[i].text # <<>>})

\* C11: the day number of a cell is the number of populated cells up to and
\* including it: missing cells and cells with empty text do not advance the
\* counter, every cell with text (shift, marker or malformed) advances it by
\* one, and every inserted event carries the day number of its cell.
C11_DayNumberCountsPopulatedCells ==
    /\ pc = "parse" => date = 1 + Populated(soup, cell - 1)
    /\ pc = "input" => date = Populated(soup, cell)
    /\ pc = "returned" => date = 1 + Populated(soup, Len(soup))
    /\ pc \in {"parse", "input", "returned"} =>
          \A e \in Range(event_dict) :
              \E i \in DOMAIN soup :
                  /\ soup[i].present
                  /\ soup[i].text # <<>>
                  /\ e.key = EventKey(month.text, Populated(soup, i),
                                      ReplaceParen(soup[i].text))

\* a missing cell, an empty cell, then a shift: the shift is day 1
C11_Witness ==
    /\ pc = "returned"
    /\ soup[1] = NoCell /\ soup[2] = Cell(<<>>) /\ soup[3] = Cell(TxtShift)
    /\ Populated(soup, Len(soup)) = 1
    /\ date = 2
    /\ Len(event_dict) = 1
    /\ SubSeq(event_dict[1].key, 9, 10) = <<"0", "1">>

-----------------------------------------------------------------------------
(* The event of a valid cell: claim C12, checked under SpecDay. *)

\* a number below 100 in two digits
TwoDigits(n) == <<Digits[(n \div 10) + 1], Digits[(n % 10) + 1]>>

\* YYYY-MM-DDTHH:MM:00 for day d of the page labelled "<MonthName> <YYYY>"
\* and the time hhmm
ExpectedDateTime(label, d, hhmm) ==
    LET name == Tokens(label)[1]
        mm == CHOOSE i \in DOMAIN MonthNames : MonthNames[i] = name
    IN  Tokens(label)[2] \o <<"-">> \o TwoDigits(mm) \o <<"-">> \o TwoDigits(d)
            \o <<"T", hhmm[1], hhmm[2], ":", hhmm[3], hhmm[4], ":", "0", "0">>

\* C12: a valid cell "HHMM-hhmm CODE Role" at day d of a page labelled
\* "<MonthName> <YYYY>" appends exactly one entry: its key and start dateTime
\* are YYYY-MM-DDTHH:MM:00, its end dateTime YYYY-MM-DDThh:mm:00 and its
\* summary the third token.
C12_ValidCellEvent ==
    [][ (HandlesText /\ IsShiftText(cell_text')) =>
            LET range == Split(Tokens(cell_text')[1], "-")
                new == event_dict'[Len(event_dict')]
            IN  /\ Len(event_dict') = Len(event_dict) + 1
                /\ SubSeq(event_dict', 1, Len(event_dict)) = event_dict
                /\ new.key = ExpectedDateTime(month.text, date, range[1])
                /\ new.event.start.dateTime = new.key
                /\ new.event.end.dateTime = ExpectedDateTime(month.text, date, range[2])
                /\ new.event.summary = Tokens(cell_text')[3] ]_vars

\* "0600-1400 ABC RoleName" on day 5 of "March 2024"
C12_Witness ==
    /\ month = Label(March2024)
    /\ cell_text = TxtShift
    /\ date = 6
    /\ Len(event_dict) = 1
    /\ event_dict[1].key = <<"2","0","2","4","-","0","3","-","0","5","T","0","6",":","0","0",":","0","0">>
    /\ event_dict[1].event.end.dateTime = <<"2","0","2","4","-","0","3","-","0","5","T","1","4",":","0","0",":","0","0">>
    /\ event_dict[1].event.summary = <<"R","o","l","e","N","a","m","e">>

-----------------------------------------------------------------------------
(* Aggregating a page twice: claim C13, checked under SpecTwice. *)

\* C13 as stated: the second pass over the same page leaves event_dict as the
\* first pass left it, in size and in content.
C13_SecondPassChangesNothing ==
    [][ page' = 2 => event_dict' = event_dict ]_vars

\* an event without its generation timestamp
WithoutDescription(e) == [e EXCEPT !.description = <<>>]

\* C13 as amended: the second pass adds no entry and leaves every key and every
\* event as the first pass left them, in every field but the description, which
\* holds the time the event was last built.
C13_SecondPassKeepsAllButTimestamp ==
    [][ page' = 2 =>
            /\ Len(event_dict') = Len(event_dict)
            /\ \A i \in DOMAIN event_dict :
                  /\ event_dict'[i].key = event_dict[i].key
                  /\ WithoutDescription(event_dict'[i].event)
                        = WithoutDescription(event_dict[i].event) ]_vars

\* the second pass is over and has rebuilt the page's shift at a later minute
C13_Witness ==
    /\ pc = "returned"
    /\ page = 2
    /\ soup[1] = Cell(TxtShift)
    /\ Len(event_dict) = 1
    /\ event_dict[1].event.description[2] = 1

-----------------------------------------------------------------------------
(* Repeated runs of main() against one remote calendar: claim C14, checked *)
(* under SpecRuns. The calendar holds what earlier runs created; all of it  *)
(* starts in the listed window, and there is less of it than max_results.  *)

\* the events of the calendar in the order the list call returns them
\* (orderBy='startTime'), each given by its start dateTime
RECURSIVE ListBag(_)
ListBag(b) ==
    IF BagToSet(b) = {} THEN <<>>
    ELSE LET k == CHOOSE x \in BagToSet(b) :
                      \A y \in BagToSet(b) : y = x \/ StrLess(x, y)
         IN  <<k>> \o ListBag(b (-) SetToBag({k}))

\* line 491 against the tracked calendar
ListRemote ==
    /\ pc = "list"
    /\ \/ /\ events_tbd' = ListBag(remote)
          /\ pc' = IF BagToSet(remote) = {} THEN "login" ELSE "delete"
          /\ UNCHANGED raised
       \/ /\ Abort("list")
          /\ UNCHANGED events_tbd
    /\ UNCHANGED <<soup, remote, deleteCalls, deleteErrors, createCalls, createErrors,
                   page, month, cell, date, cell_text, event_dict, now>>

\* lines 493-497 against the tracked calendar: a delete that succeeds removes
\* the event, one that fails leaves it and is only printed
DeleteRemote ==
    /\ pc = "delete"
    /\ deleteCalls < Len(events_tbd)
    /\ deleteCalls' = deleteCalls + 1
    /\ \/ /\ remote' = remote (-) SetToBag({events_tbd[deleteCalls + 1]})
          /\ UNCHANGED deleteErrors
       \/ /\ deleteErrors' = deleteErrors + 1
          /\ UNCHANGED remote
    /\ pc' = IF deleteCalls + 1 = Len(events_tbd) THEN "login" ELSE "delete"
    /\ UNCHANGED <<soup, raised, events_tbd, createCalls, createErrors, page, month,
                   cell, date, cell_text, event_dict, now>>

\* lines 514-518 against the tracked calendar: events().insert adds an event
\* with a fresh id, whatever the calendar holds
CreateRemote ==
    /\ pc = "create"
    /\ createCalls < Len(event_dict)
    /\ createCalls' = createCalls + 1
    /\ \/ /\ remote' = remote (+)
                 SetToBag({event_dict[createCalls + 1].event.start.dateTime})
          /\ UNCHANGED createErrors
       \/ /\ createErrors' = createErrors + 1
          /\ UNCHANGED remote
    /\ pc' = IF createCalls + 1 = Len(event_dict) THEN "done" ELSE "create"
    /\ UNCHANGED <<soup, raised, events_tbd, deleteCalls, deleteErrors, page, month,
                   cell, date, cell_text, event_dict, now>>

\* the script is started again: a new process, whose module globals are fresh,
\* against the calendar as the last run left it
NewRun ==
    /\ pc \in {"done", "aborted"}
    /\ BagCardinality(remote) <= MaxRemote
    /\ pc' = "list"
    /\ raised' = "none"
    /\ events_tbd' = <<>>
    /\ deleteCalls' = 0
    /\ deleteErrors' = 0
    /\ page' = 0
    /\ month' = NoLabel
    /\ cell' = 1
    /\ date' = 1
    /\ cell_text' = <<>>
    /\ event_dict' = <<>>
    /\ now' = 0
    /\ createCalls' = 0
    /\ createErrors' = 0
    /\ UNCHANGED <<soup, remote>>

NextRuns ==
    \/ ListRemote
    \/ DeleteRemote
    \/ Login
    \/ ProcessCell(RunCells, MaxRunCells)
    \/ Acknowledge
    \/ ReturnDict(MaxRunCells)
    \/ FetchNextPage
    \/ Quit
    \/ CreateRemote
    \/ NewRun

SpecRuns == Init /\ [][NextRuns]_vars

\* C14: after any sequence of runs, a completed run leaves the calendar with
\* at most one event per start instant.
C14_NoDuplicateRemoteEvents ==
    pc = "done" => \A k \in BagToSet(remote) : CopiesIn(k, remote) <= 1

\* C15: every entry of event_dict is stored under the start dateTime of its
\* own event, and no two entries have the same start dateTime.
C15_KeyIsStartDateTime ==
    /\ \A i \in DOMAIN event_dict :
          event_dict[i].key = event_dict[i].event.start.dateTime
    /\ \A i, j \in DOMAIN event_dict :
          event_dict[i].event.start.dateTime = event_dict[j].event.start.dateTime
              => i = j

\* two entries after the third page, the first overwritten by a later page
C15_Witness ==
    /\ page = 3
    /\ Len(event_dict) = 2
    /\ event_dict[1].event.description[2] = 1
    /\ event_dict[2].event.description[2] = 0

\* C16: the list call and every delete call come before the first page is
\* acquired: from login on every listed event has had its delete call, and
\* a run that stops in login, navigation or parsing has issued no create call.
C16_DeletesBeforeFirstPage ==
    /\ (pc \in {"login", "parse", "input", "returned"} \/ page > 0) =>
          /\ raised # "list"
          /\ deleteCalls = Len(events_tbd)
    /\ pc \in {"login", "parse", "input", "returned"} => createCalls = 0
    /\ raised \in {"login", "fetch", "parse"} =>
          /\ pc = "aborted"
          /\ deleteCalls = Len(events_tbd)
          /\ createCalls = 0

\* a run that stops while parsing a later page, with three deletes attempted
\* and an entry already aggregated
C16_Witness ==
    /\ pc = "aborted" /\ raised = "parse"
    /\ page >= 2
    /\ Len(events_tbd) = 3 /\ deleteCalls = 3 /\ deleteErrors >= 1
    /\ Len(event_dict) >= 1
    /\ createCalls = 0

====
